---- MODULE Spec2Model ----
(***************************************************************************)
(* mv-realty-backend: the HTTP handlers of src/main.go over the MongoDB    *)
(* collections properties, listings, inquiries and users.                  *)
(*                                                                         *)
(* One request slot per concurrently served request (net/http runs each    *)
(* handler in its own goroutine).  A handler's local work is atomic with   *)
(* the store call that follows it; every store call is one atomic step,    *)
(* and it may fail (timeout, network), in which case it changes nothing.   *)
(* An ObjectID is modelled as one byte (two hex characters) instead of     *)
(* twelve (twenty-four); the clock counts its readings.  Title,            *)
(* Description, Message and Email stand for the data fields of a record,   *)
(* which the handlers all carry from the body to the store untouched.      *)
(***************************************************************************)
EXTENDS Naturals, Sequences, FiniteSets, Bags

VARIABLES
    properties,  \* collection "properties", in insertion order
    listings,    \* collection "listings"
    inquiries,   \* collection "inquiries"
    users,       \* collection "users"
    now,         \* the server clock, as time.Now() last read it
    nextOid,     \* the driver's ObjectID generator
    pc,          \* per request slot: where its handler stands
    req,         \* per request slot: the request being served
    doc,         \* per request slot: the handler's local document
    out,         \* the request answered by the latest step, and the response
    served,      \* number of requests taken in so far
    created,     \* ledger of the inserts answered 200: the body sent, the id returned
    acked,       \* ledger of the image attaches answered 200 for a stored Property
    checks,      \* ledger of the user checks answered 200
    writes       \* number of store writes applied so far

vars == <<properties, listings, inquiries, users, now, nextOid,
          pc, req, doc, out, served, created, acked, checks, writes>>

store == <<properties, listings, inquiries, users>>

--------------------------------------------------------------------------
(* Bounds: the request slots, and the requests taken in over a run *)

NumProcs == 2
MaxRequests == 3

Procs == 1..NumProcs

--------------------------------------------------------------------------
(* primitive.ObjectID and its hex form *)

NilObjectID == 0

\* a Go nil slice (BSON null), as opposed to the empty slice <<>> (an empty
\* array): a value that is no list of URLs
NilSlice == <<"nil">>

\* the value of a hex character, 16 for a character that is no hex digit
HexValue(c) ==
    CASE c = "0" -> 0
      [] c = "1" -> 1
      [] c = "2" -> 2
      [] c = "3" -> 3
      [] c = "a" -> 10
      [] c = "A" -> 10
      [] OTHER -> 16

\* primitive.ObjectIDFromHex: (id, err); NilObjectID comes with every error
ObjectIDFromHex(s) ==
    IF Len(s) # 2 THEN [id |-> NilObjectID, err |-> TRUE]
    ELSE IF HexValue(s[1]) = 16 \/ HexValue(s[2]) = 16
         THEN [id |-> NilObjectID, err |-> TRUE]
         ELSE [id |-> 16 * HexValue(s[1]) + HexValue(s[2]), err |-> FALSE]

\* ObjectID.UnmarshalJSON as json.Decode runs it on an id field of the body:
\* an absent field or an empty string leaves the zero id, anything else must
\* be the hex form of an id
UnmarshalObjectID(s) ==
    IF s = <<>> THEN [id |-> NilObjectID, err |-> FALSE] ELSE ObjectIDFromHex(s)

--------------------------------------------------------------------------
(* Requests *)

\* a request body that is not valid JSON
Malformed == [malformed |-> TRUE]

\* id strings a caller may send: absent or empty, the hex of the first two
\* generated ids, an id of the caller's own choosing in either letter case,
\* a string with a non-hex character, a string of the wrong length
IdOwn == <<"a", "a">>
IdOwnUpper == <<"A", "A">>
IdFirst == <<"0", "1">>
IdBadChar == <<"0", "g">>
IdShort == <<"1">>

\* a Created_at the caller supplies; the zero time when the field is absent
SuppliedTime == 9
ZeroTime == 0

PropertyBodies ==
    { Malformed,
      [property_id |-> <<>>, Title |-> "t1", Images |-> NilSlice, Created_at |-> ZeroTime],
      [property_id |-> IdOwn, Title |-> "t2", Images |-> <<"evil">>, Created_at |-> SuppliedTime] }

ListingBodies ==
    { Malformed,
      [listing_id |-> <<>>, property_id |-> IdFirst, description |-> "d1",
       photos |-> NilSlice, created_at |-> ZeroTime],
      [listing_id |-> IdOwn, property_id |-> IdOwnUpper, description |-> "d2",
       photos |-> <<"evil">>, created_at |-> SuppliedTime],
      [listing_id |-> <<>>, property_id |-> IdBadChar, description |-> "d1",
       photos |-> NilSlice, created_at |-> ZeroTime],
      [listing_id |-> IdShort, property_id |-> IdFirst, description |-> "d1",
       photos |-> NilSlice, created_at |-> ZeroTime] }

InquiryBodies ==
    { Malformed,
      [inquiry_id |-> <<>>, message |-> "m1", Created_at |-> SuppliedTime] }

UserBodies ==
    { Malformed,
      [user_id |-> <<>>, email |-> "a@x", created_at |-> SuppliedTime] }

\* image-attach requests: the path id, and the multipart body, which parses
\* ("ok"), does not parse ("badform") or holds no field "image" ("nofile")
UploadRequests ==
    { [op |-> "uploadImage", id |-> IdFirst, form |-> "ok"],
      [op |-> "uploadImage", id |-> IdBadChar, form |-> "ok"],
      [op |-> "uploadImage", id |-> IdFirst, form |-> "badform"],
      [op |-> "uploadImage", id |-> IdFirst, form |-> "nofile"] }

Emails == {"", "a@x", "b@x"}

\* what the image host answers: a failure to initialise, a failed upload, a
\* result with an empty SecureURL, a result with a URL
CloudOutcomes == {"init_error", "upload_error", "", "u1", "u2"}

\* the requests of one operation
Requests(o) ==
    CASE o = "createProperty" -> {[op |-> o, body |-> b] : b \in PropertyBodies}
      [] o = "createListing" -> {[op |-> o, body |-> b] : b \in ListingBodies}
      [] o = "createInquiry" -> {[op |-> o, body |-> b] : b \in InquiryBodies}
      [] o = "createUser" -> {[op |-> o, body |-> b] : b \in UserBodies}
      [] o = "uploadImage" -> UploadRequests
      [] o = "checkUser" -> {[op |-> o, email |-> e] : e \in Emails}
      [] OTHER -> {[op |-> o]}

NoReq == [op |-> "none"]
NoDoc == [none |-> TRUE]
NoResp == [op |-> "none", status |-> 0]

NoOut == [req |-> NoReq, resp |-> NoResp]

\* the id strings of a request
IdStrings(r) ==
    IF r.op = "uploadImage" THEN {r.id}
    ELSE IF r.op \notin {"createProperty", "createListing", "createInquiry", "createUser"}
    THEN {}
    ELSE IF r.body = Malformed THEN {}
    ELSE IF r.op = "createProperty" THEN {r.body.property_id}
    ELSE IF r.op = "createListing" THEN {r.body.listing_id, r.body.property_id}
    ELSE IF r.op = "createInquiry" THEN {r.body.inquiry_id}
    ELSE {r.body.user_id}

--------------------------------------------------------------------------
(* The store *)

\* the document of collection coll with the given _id, as a set of indices
FindByID(coll, id) == {i \in DOMAIN coll : coll[i].ID = id}

\* InsertOne: a document whose _id was omitted (omitempty on a zero id) gets
\* a generated one; an _id already in the collection is a duplicate key error
InsertOne(coll, d) ==
    LET id == IF d.ID = NilObjectID THEN nextOid ELSE d.ID
    IN  IF FindByID(coll, id) # {}
        THEN [err |-> TRUE, id |-> id, docs |-> coll]
        ELSE [err |-> FALSE, id |-> id, docs |-> Append(coll, [d EXCEPT !.ID = id])]

\* faulty Find: the cursor is left before its last document
FindAll_Short(coll) == SubSeq(coll, 1, Len(coll) - 1)

\* Find with an empty filter, the cursor read to its end
FindAll(coll) == coll

\* faulty FindOne: the filter is dropped, any document matches
FindOneByID_NoFilter(coll, id) == DOMAIN coll

\* FindOne by _id: the index set is empty for mongo.ErrNoDocuments
FindOneByID(coll, id) == FindByID(coll, id)

\* faulty FindOne by email: the filter is dropped, any User matches
FindOneByEmail_NoFilter(coll, email) == DOMAIN coll

\* FindOne by email: exact, case-sensitive match
FindOneByEmail(coll, email) == {i \in DOMAIN coll : coll[i].Email = email}

\* faulty update: $set in place of $push, the URL replaces the list
PushImage_Set(coll, id, url) ==
    [i \in DOMAIN coll |->
        IF coll[i].ID = id THEN [coll[i] EXCEPT !.Images = <<url>>] ELSE coll[i]]

\* faulty update: $addToSet in place of $push, a URL already held is dropped
PushImage_AddToSet(coll, id, url) ==
    [i \in DOMAIN coll |->
        IF coll[i].ID = id /\ \A k \in DOMAIN coll[i].Images : coll[i].Images[k] # url
        THEN [coll[i] EXCEPT !.Images = Append(coll[i].Images, url)]
        ELSE coll[i]]

\* faulty update: the filter is dropped, every Property gets the URL
PushImage_Many(coll, id, url) ==
    [i \in DOMAIN coll |-> [coll[i] EXCEPT !.Images = Append(coll[i].Images, url)]]

\* UpdateByID with $push on Images: the document with that _id gets the URL
\* appended to its Images; no document with that _id is no error and no change
PushImage(coll, id, url) ==
    [i \in DOMAIN coll |->
        IF coll[i].ID = id
        THEN [coll[i] EXCEPT !.Images = Append(coll[i].Images, url)]
        ELSE coll[i]]

--------------------------------------------------------------------------
(* json.Decode into the record structs, and what the handlers make of them *)

DecodeProperty(body) ==
    IF body = Malformed THEN [err |-> TRUE]
    ELSE LET r == UnmarshalObjectID(body.property_id)
         IN  IF r.err THEN [err |-> TRUE]
             ELSE [err |-> FALSE,
                   doc |-> [ID |-> r.id, Title |-> body.Title,
                            Images |-> body.Images, CreatedAt |-> body.Created_at]]

DecodeListing(body) ==
    IF body = Malformed THEN [err |-> TRUE]
    ELSE LET r == UnmarshalObjectID(body.listing_id)
         IN  IF r.err THEN [err |-> TRUE]
             ELSE [err |-> FALSE,
                   doc |-> [ID |-> r.id, PropertyID |-> body.property_id,
                            Description |-> body.description,
                            Photos |-> body.photos, CreatedAt |-> body.created_at]]

DecodeInquiry(body) ==
    IF body = Malformed THEN [err |-> TRUE]
    ELSE LET r == UnmarshalObjectID(body.inquiry_id)
         IN  IF r.err THEN [err |-> TRUE]
             ELSE [err |-> FALSE,
                   doc |-> [ID |-> r.id, Message |-> body.message,
                            CreatedAt |-> body.Created_at]]

DecodeUser(body) ==
    IF body = Malformed THEN [err |-> TRUE]
    ELSE LET r == UnmarshalObjectID(body.user_id)
         IN  IF r.err THEN [err |-> TRUE]
             ELSE [err |-> FALSE,
                   doc |-> [ID |-> r.id, Email |-> body.email,
                            CreatedAt |-> body.created_at]]

\* faulty createProperty: the caller's Images are kept
StampProperty_KeepImages(d, t) == [d EXCEPT !.CreatedAt = t]

\* createProperty: property.CreatedAt = time.Now(); property.Images = []string{}
StampProperty(d, t) == [d EXCEPT !.CreatedAt = t, !.Images = <<>>]

\* faulty createListing: the caller's photos are kept
StampListing_KeepPhotos(d, t) == [d EXCEPT !.CreatedAt = t]

\* createListing: listing.CreatedAt = time.Now(); listing.Photos = []string{}
StampListing(d, t) == [d EXCEPT !.CreatedAt = t, !.Photos = <<>>]

\* createInquiry: inquiry.CreatedAt = time.Now()
StampInquiry(d, t) == [d EXCEPT !.CreatedAt = t]

\* createUser: user.CreatedAt = time.Now()
StampUser(d, t) == [d EXCEPT !.CreatedAt = t]

--------------------------------------------------------------------------
(* Initial state: the server is up, the store is empty, no request is in *)

Init ==
    /\ properties = <<>>
    /\ listings = <<>>
    /\ inquiries = <<>>
    /\ users = <<>>
    /\ now = 0
    /\ nextOid = 1
    /\ pc = [p \in Procs |-> "idle"]
    /\ req = [p \in Procs |-> NoReq]
    /\ doc = [p \in Procs |-> NoDoc]
    /\ out = NoOut
    /\ served = 0
    /\ created = {}
    /\ acked = EmptyBag
    /\ checks = <<>>
    /\ writes = 0

\* the handler of slot p answers request r with response a and returns
Reply(p, r, a) ==
    /\ out' = [req |-> r, resp |-> a]
    /\ pc' = [pc EXCEPT ![p] = "idle"]
    /\ req' = [req EXCEPT ![p] = NoReq]
    /\ doc' = [doc EXCEPT ![p] = NoDoc]

\* the handler of slot p, serving r, goes on to its store write with local
\* document d
Goto(p, label, r, d) ==
    /\ pc' = [pc EXCEPT ![p] = label]
    /\ req' = [req EXCEPT ![p] = r]
    /\ doc' = [doc EXCEPT ![p] = d]
    /\ out' = NoOut

Error(o, code, m) == [op |-> o, status |-> code, msg |-> m]

\* a caller can send the hex of an id it chose itself or of one it was given
Known(s) ==
    LET r == ObjectIDFromHex(s)
    IN  r.err \/ r.id = NilObjectID \/ r.id >= 16 \/ r.id < nextOid

\* the router hands request r to a handler goroutine, in the first free slot
Receive(p, r) ==
    /\ pc[p] = "idle"
    /\ \A q \in Procs : q < p => pc[q] # "idle"
    /\ served < MaxRequests
    /\ \A s \in IdStrings(r) : Known(s)
    /\ served' = served + 1

\* time.Now(): every reading of the clock is later than the one before
TimeNow == now + 1

\* what an insert that was answered 200 adds to the ledger
Created(c, id, r, d) ==
    created \cup {[coll |-> c, id |-> id, body |-> r.body, ts |-> d.CreatedAt]}

--------------------------------------------------------------------------
(* POST /add/property *)

createProperty(p) ==
    /\ \E r \in Requests("createProperty") :
        /\ Receive(p, r)
        /\ LET d == DecodeProperty(r.body)
           IN  IF d.err
               THEN /\ Reply(p, r, Error(r.op, 500, "Failed to parse request body"))
                    /\ now' = now
               ELSE /\ now' = TimeNow
                    /\ Goto(p, "insert", r, StampProperty(d.doc, TimeNow))
    /\ UNCHANGED <<store, nextOid, created, acked, checks, writes>>

createPropertyInsert(p) ==
    /\ pc[p] = "insert" /\ req[p].op = "createProperty"
    /\ nextOid' = IF doc[p].ID = NilObjectID THEN nextOid + 1 ELSE nextOid
    /\ \E fail \in BOOLEAN :
        LET r == InsertOne(properties, doc[p])
        IN  IF fail \/ r.err
            THEN /\ Reply(p, req[p], Error(req[p].op, 500, "Failed to create Property"))
                 /\ UNCHANGED <<properties, created, writes>>
            ELSE /\ properties' = r.docs
                 /\ writes' = writes + 1
                 /\ created' = Created("properties", r.id, req[p], doc[p])
                 /\ Reply(p, req[p], [op |-> req[p].op, status |-> 200, id |-> r.id])
    /\ UNCHANGED <<listings, inquiries, users, now, served, acked, checks>>

--------------------------------------------------------------------------
(* POST /add/listing *)

\* up to the insert: the body, the format of property_id, the lookup of the
\* Property, the timestamp
createListing(p) ==
    /\ \E r \in Requests("createListing") :
        /\ Receive(p, r)
        /\ LET d == DecodeListing(r.body)
               h == ObjectIDFromHex(d.doc.PropertyID)
           IN  IF d.err
               THEN /\ Reply(p, r, Error(r.op, 500, "Failed to parse request body"))
                    /\ now' = now
               ELSE IF h.err
               THEN /\ Reply(p, r, Error(r.op, 400, "Invalid PropertyID format"))
                    /\ now' = now
               ELSE \E fail \in BOOLEAN :
                      IF fail
                      THEN /\ Reply(p, r, Error(r.op, 500, "Failed to check PropertyID"))
                           /\ now' = now
                      ELSE IF FindOneByID(properties, h.id) = {}
                      THEN /\ Reply(p, r, Error(r.op, 400, "PropertyID does not exist"))
                           /\ now' = now
                      ELSE /\ now' = TimeNow
                           /\ Goto(p, "insert", r, StampListing(d.doc, TimeNow))
    /\ UNCHANGED <<store, nextOid, created, acked, checks, writes>>

createListingInsert(p) ==
    /\ pc[p] = "insert" /\ req[p].op = "createListing"
    /\ nextOid' = IF doc[p].ID = NilObjectID THEN nextOid + 1 ELSE nextOid
    /\ \E fail \in BOOLEAN :
        LET r == InsertOne(listings, doc[p])
        IN  IF fail \/ r.err
            THEN /\ Reply(p, req[p], Error(req[p].op, 500, "Failed to create Listing"))
                 /\ UNCHANGED <<listings, created, writes>>
            ELSE /\ listings' = r.docs
                 /\ writes' = writes + 1
                 /\ created' = Created("listings", r.id, req[p], doc[p])
                 /\ Reply(p, req[p], [op |-> req[p].op, status |-> 200, id |-> r.id])
    /\ UNCHANGED <<properties, inquiries, users, now, served, acked, checks>>

--------------------------------------------------------------------------
(* POST /add/inquiry *)

createInquiry(p) ==
    /\ \E r \in Requests("createInquiry") :
        /\ Receive(p, r)
        /\ LET d == DecodeInquiry(r.body)
           IN  IF d.err
               THEN /\ Reply(p, r, Error(r.op, 500, "Failed to parse request body"))
                    /\ now' = now
               ELSE /\ now' = TimeNow
                    /\ Goto(p, "insert", r, StampInquiry(d.doc, TimeNow))
    /\ UNCHANGED <<store, nextOid, created, acked, checks, writes>>

createInquiryInsert(p) ==
    /\ pc[p] = "insert" /\ req[p].op = "createInquiry"
    /\ nextOid' = IF doc[p].ID = NilObjectID THEN nextOid + 1 ELSE nextOid
    /\ \E fail \in BOOLEAN :
        LET r == InsertOne(inquiries, doc[p])
        IN  IF fail \/ r.err
            THEN /\ Reply(p, req[p], Error(req[p].op, 500, "Failed to create Inquiry"))
                 /\ UNCHANGED <<inquiries, created, writes>>
            ELSE /\ inquiries' = r.docs
                 /\ writes' = writes + 1
                 /\ created' = Created("inquiries", r.id, req[p], doc[p])
                 /\ Reply(p, req[p], [op |-> req[p].op, status |-> 200, id |-> r.id])
    /\ UNCHANGED <<properties, listings, users, now, served, acked, checks>>

--------------------------------------------------------------------------
(* POST /add/user *)

createUser(p) ==
    /\ \E r \in Requests("createUser") :
        /\ Receive(p, r)
        /\ LET d == DecodeUser(r.body)
           IN  IF d.err
               THEN /\ Reply(p, r, Error(r.op, 500, "Failed to parse request body"))
                    /\ now' = now
               ELSE /\ now' = TimeNow
                    /\ Goto(p, "insert", r, StampUser(d.doc, TimeNow))
    /\ UNCHANGED <<store, nextOid, created, acked, checks, writes>>

createUserInsert(p) ==
    /\ pc[p] = "insert" /\ req[p].op = "createUser"
    /\ nextOid' = IF doc[p].ID = NilObjectID THEN nextOid + 1 ELSE nextOid
    /\ \E fail \in BOOLEAN :
        LET r == InsertOne(users, doc[p])
        IN  IF fail \/ r.err
            THEN /\ Reply(p, req[p], Error(req[p].op, 500, "Failed to create User"))
                 /\ UNCHANGED <<users, created, writes>>
            ELSE /\ users' = r.docs
                 /\ writes' = writes + 1
                 /\ created' = Created("users", r.id, req[p], doc[p])
                 /\ Reply(p, req[p], [op |-> req[p].op, status |-> 200, id |-> r.id])
    /\ UNCHANGED <<properties, listings, inquiries, now, served, acked, checks>>

--------------------------------------------------------------------------
(* POST /properties/{id}/images *)

\* up to the store update: the path id (its parse error dropped), the form,
\* the upload to the image host
uploadImage(p) ==
    /\ \E r \in Requests("uploadImage") :
        /\ Receive(p, r)
        /\ LET id == ObjectIDFromHex(r.id).id
           IN  IF r.form = "badform"
               THEN Reply(p, r, Error(r.op, 400, "Unable to parse form data"))
               ELSE IF r.form = "nofile"
               THEN Reply(p, r, Error(r.op, 400, "Unable to get the file from form data"))
               ELSE \E c \in CloudOutcomes :
                      IF c = "init_error"
                      THEN Reply(p, r, Error(r.op, 500, "Failed to initialize Cloudinary"))
                      ELSE IF c = "upload_error"
                      THEN Reply(p, r, Error(r.op, 500, "Failed to upload image to Cloudinary"))
                      ELSE IF c = ""
                      THEN Reply(p, r, Error(r.op, 500, "Empty SecureURL returned from Cloudinary"))
                      ELSE Goto(p, "update", r, [id |-> id, url |-> c])
    /\ UNCHANGED <<store, now, nextOid, created, acked, checks, writes>>

\* another image attach for the same id is in flight beside that of slot p
Overlapped(p) ==
    \E q \in Procs \ {p} : pc[q] = "update" /\ doc[q].id = doc[p].id

uploadImageUpdate(p) ==
    /\ pc[p] = "update" /\ req[p].op = "uploadImage"
    /\ \E fail \in BOOLEAN :
        IF fail
        THEN /\ Reply(p, req[p], Error(req[p].op, 500, "Failed to update property with image URL"))
             /\ UNCHANGED <<properties, acked, writes>>
        ELSE /\ properties' = PushImage(properties, doc[p].id, doc[p].url)
             /\ IF FindByID(properties, doc[p].id) # {}
                THEN /\ writes' = writes + 1
                     /\ acked' = acked (+) SetToBag({<<doc[p].id, doc[p].url,
                                                        Overlapped(p)>>})
                ELSE UNCHANGED <<acked, writes>>
             /\ Reply(p, req[p], [op |-> req[p].op, status |-> 200,
                                  msg |-> "Image uploaded successfully", url |-> doc[p].url])
    /\ UNCHANGED <<listings, inquiries, users, now, nextOid, served, created, checks>>

--------------------------------------------------------------------------
(* GET /check/user *)

checkUser(p) ==
    /\ \E r \in Requests("checkUser") :
        /\ Receive(p, r)
        /\ IF r.email = ""
           THEN /\ Reply(p, r, Error(r.op, 400, "Email query parameter is required"))
                /\ checks' = checks
           ELSE \E fail \in BOOLEAN :
                  IF fail
                  THEN /\ Reply(p, r, Error(r.op, 500, "Error checking user existence"))
                       /\ checks' = checks
                  ELSE LET found == FindOneByEmail(users, r.email) # {}
                       IN  /\ Reply(p, r, [op |-> r.op, status |-> 200, exists |-> found])
                           /\ checks' = Append(checks, [email |-> r.email,
                                                        exists |-> found, at |-> writes])
    /\ UNCHANGED <<store, now, nextOid, created, acked, writes>>

--------------------------------------------------------------------------
(* GET /properties, /listings, /inquiries, /users *)

\* the shape the list handlers share
List(p, o, coll, m) ==
    /\ \E r \in Requests(o) :
        /\ Receive(p, r)
        /\ \E fail \in BOOLEAN :
            IF fail
            THEN Reply(p, r, Error(o, 500, m))
            ELSE Reply(p, r, [op |-> o, status |-> 200, body |-> FindAll(coll)])
    /\ UNCHANGED <<store, now, nextOid, created, acked, checks, writes>>

getProperties(p) ==
    List(p, "getProperties", properties, "Failed to retrieve Properties from MongoDB")

getListings(p) ==
    List(p, "getListings", listings, "Failed to retrieve Listings from MongoDB")

getInquires(p) ==
    List(p, "getInquires", inquiries, "Failed to retrieve Inquiries from MongoDB")

getUsers(p) ==
    List(p, "getUsers", users, "Failed to retrieve Users from MongoDB")

--------------------------------------------------------------------------

Next ==
    \E p \in Procs :
        \/ createProperty(p) \/ createPropertyInsert(p)
        \/ createListing(p) \/ createListingInsert(p)
        \/ createInquiry(p) \/ createInquiryInsert(p)
        \/ createUser(p) \/ createUserInsert(p)
        \/ uploadImage(p) \/ uploadImageUpdate(p)
        \/ checkUser(p)
        \/ getProperties(p) \/ getListings(p) \/ getInquires(p) \/ getUsers(p)

Spec == Init /\ [][Next]_vars

--------------------------------------------------------------------------
(* Reading a step *)

\* the slot a request taken in by this step is handled in
FirstIdle == CHOOSE p \in Procs : pc[p] = "idle" /\ \A q \in Procs : q < p => pc[q] # "idle"

\* this step takes in request r: it runs r's handler up to its first answer
\* or its store write
Takes(r) ==
    /\ served' = served + 1
    /\ IF out' # NoOut THEN out'.req = r ELSE req'[FirstIdle] = r

\* this step answers request r
Answers(r) == out' # NoOut /\ out'.req = r

\* this step is the store write of the request in slot p, and its answer
Completes(p, o) == pc[p] # "idle" /\ req[p].op = o /\ pc'[p] = "idle"

Last(seq) == seq[Len(seq)]

AllRequests ==
    UNION {Requests(o) : o \in {"createProperty", "createListing", "createInquiry",
                                "createUser", "uploadImage", "checkUser", "getProperties",
                                "getListings", "getInquires", "getUsers"}}

\* the body of r decodes into the Listing struct
ListingDecodes(r) == r.body # Malformed /\ ~UnmarshalObjectID(r.body.listing_id).err

\* the property_id of createListing request r names no stored Property
NamesNoProperty(r) ==
    /\ r.body # Malformed
    /\ LET h == ObjectIDFromHex(r.body.property_id)
       IN  h.err \/ \A i \in DOMAIN properties : properties[i].ID # h.id

\* the property_id of createListing request r names a stored Property
NamesProperty(r) ==
    /\ r.body # Malformed
    /\ LET h == ObjectIDFromHex(r.body.property_id)
       IN  ~h.err /\ \E i \in DOMAIN properties : properties[i].ID = h.id

--------------------------------------------------------------------------
(* C1 *)

\* C1, as stated: a createListing request whose property_id names no stored
\* Property at the time of the lookup is answered 400, and the listings
\* collection is unchanged.
C1_AbsentPropertyIs400 ==
    [][\A r \in Requests("createListing") :
          (Takes(r) /\ NamesNoProperty(r)) =>
              /\ Answers(r)
              /\ out'.resp.status = 400
              /\ listings' = listings]_vars

\* C1, amended: a createListing request whose property_id names no stored
\* Property at the time of the lookup ends there, without an insert and with
\* the listings collection unchanged; it is answered 400, except that a body
\* that fails to decode and a lookup that itself fails are answered 500.
C1_AbsentPropertyNoInsert ==
    [][\A r \in Requests("createListing") :
          (Takes(r) /\ NamesNoProperty(r)) =>
              /\ Answers(r)
              /\ listings' = listings
              /\ \/ out'.resp.status = 400
                 \/ /\ out'.resp.status = 500
                    /\ out'.resp.msg = "Failed to check PropertyID"
                    /\ ListingDecodes(r)
                 \/ /\ out'.resp.status = 500
                    /\ out'.resp.msg = "Failed to parse request body"
                    /\ ~ListingDecodes(r)]_vars

\* a createListing request for a well-formed id of no stored Property was
\* answered "PropertyID does not exist" while the store holds other Properties
C1_Witness ==
    /\ out.req.op = "createListing"
    /\ out.resp.status = 400
    /\ out.resp.msg = "PropertyID does not exist"
    /\ properties # <<>>
    /\ listings = <<>>

--------------------------------------------------------------------------
(* C2 *)

\* C2, as stated: a createListing request whose property_id names a stored
\* Property inserts exactly one Listing, with an empty photos list.
C2_PresentPropertyInserts ==
    [][/\ \A r \in Requests("createListing") :
            (Takes(r) /\ NamesProperty(r)) => ~Answers(r)
       /\ \A p \in Procs :
            Completes(p, "createListing") =>
                /\ Len(listings') = Len(listings) + 1
                /\ Last(listings').Photos = <<>>]_vars

\* C2, amended: a createListing request whose property_id names a stored
\* Property inserts exactly one Listing, with an empty photos list whatever
\* photos the caller sent, and is answered 200 with its id, unless the body
\* fails to decode, the lookup fails or the insert fails: then it is answered
\* 500 and no Listing is inserted.  Nothing else inserts a Listing.
C2_PresentPropertyInsertsOrFails ==
    [][/\ \A r \in Requests("createListing") :
            (Takes(r) /\ NamesProperty(r)) =>
                /\ listings' = listings
                /\ \/ /\ ~Answers(r)
                      /\ ListingDecodes(r)
                      /\ pc'[FirstIdle] = "insert"
                      /\ doc'[FirstIdle].Photos = <<>>
                   \/ /\ Answers(r)
                      /\ out'.resp.status = 500
                      /\ out'.resp.msg = "Failed to check PropertyID"
                      /\ ListingDecodes(r)
                   \/ /\ Answers(r)
                      /\ out'.resp.status = 500
                      /\ out'.resp.msg = "Failed to parse request body"
                      /\ ~ListingDecodes(r)
       /\ \A p \in Procs :
            Completes(p, "createListing") =>
                \/ /\ out'.resp.status = 200
                   /\ Len(listings') = Len(listings) + 1
                   /\ SubSeq(listings', 1, Len(listings)) = listings
                   /\ Last(listings').Photos = <<>>
                   /\ Last(listings').ID = out'.resp.id
                   /\ Last(listings').PropertyID = req[p].body.property_id
                \/ /\ out'.resp.status = 500
                   /\ out'.resp.msg = "Failed to create Listing"
                   /\ listings' = listings
       /\ listings' # listings => \E p \in Procs : Completes(p, "createListing")]_vars

\* a createListing request that sent photos was answered 200, and the Listing
\* stored under the id returned has an empty photos list
C2_Witness ==
    \E e \in created :
        /\ e.coll = "listings"
        /\ e.body.photos = <<"evil">>
        /\ \E i \in DOMAIN listings :
            /\ listings[i].ID = e.id
            /\ listings[i].Photos = <<>>
            /\ \E j \in DOMAIN properties :
                properties[j].ID = ObjectIDFromHex(listings[i].PropertyID).id

--------------------------------------------------------------------------
(* C3 *)

\* C3: the Property a createProperty request stores has an empty images list
\* and the time the handler read from the server clock as its creation
\* timestamp, whatever Images and Created_at the body carried; only
\* createProperty adds a Property.
C3_PropertyStamped ==
    [][/\ \A r \in Requests("createProperty") :
            (Takes(r) /\ ~Answers(r)) =>
                /\ now' > now
                /\ doc'[FirstIdle].CreatedAt = now'
                /\ doc'[FirstIdle].Images = <<>>
       /\ \A p \in Procs :
            (Completes(p, "createProperty") /\ out'.resp.status = 200) =>
                /\ Len(properties') = Len(properties) + 1
                /\ Last(properties').Images = <<>>
                /\ Last(properties').CreatedAt = doc[p].CreatedAt
                /\ Last(properties').CreatedAt \in 1..now
       /\ Len(properties') # Len(properties) =>
            \E p \in Procs : Completes(p, "createProperty") /\ out'.resp.status = 200]_vars

\* a createProperty request that sent Images and Created_at was answered 200,
\* and the Property stored under the id returned has an empty images list and
\* the server's time
C3_Witness ==
    \E e \in created :
        /\ e.coll = "properties"
        /\ e.body.Images = <<"evil">>
        /\ e.body.Created_at = SuppliedTime
        /\ \E i \in DOMAIN properties :
            /\ properties[i].ID = e.id
            /\ properties[i].Images = <<>>
            /\ properties[i].CreatedAt \in 1..now
            /\ properties[i].CreatedAt # SuppliedTime

--------------------------------------------------------------------------
(* C4 *)

Collections == {properties, listings, inquiries, users}

\* C4: an id sent in the body of a creation request is ignored: the id of
\* every stored record is one the store generated on insertion, never the
\* caller's.
C4_IdsAreGenerated ==
    \A c \in Collections : \A i \in DOMAIN c : c[i].ID \in 1..(nextOid - 1)

--------------------------------------------------------------------------
(* C5 *)

\* the input of request r is malformed: a body that is no JSON, a multipart
\* body that does not parse, an id string that is no id, no email
MalformedInput(r) ==
    \/ r.op \in {"createProperty", "createListing", "createInquiry", "createUser"}
       /\ r.body = Malformed
    \/ r.op = "createListing" /\ r.body # Malformed
       /\ ObjectIDFromHex(r.body.property_id).err
    \/ r.op = "uploadImage" /\ r.form = "badform"
    \/ r.op = "uploadImage" /\ ObjectIDFromHex(r.id).err
    \/ r.op = "checkUser" /\ r.email = ""

\* C5: a request with malformed input is answered with a 4xx status as soon
\* as it is taken in, and the store is unchanged.
C5_MalformedIs4xx ==
    [][\A r \in AllRequests :
          (Takes(r) /\ MalformedInput(r)) =>
              /\ Answers(r)
              /\ out'.resp.status \in 400..499
              /\ store' = store]_vars

--------------------------------------------------------------------------
(* C6 *)

\* the id an image-attach request addresses: the zero id when the path id
\* is no id
Addressed(r) == ObjectIDFromHex(r.id).id

\* C6: an image attach answered 200 for id p with URL u leaves the properties
\* collection as it was but for the Property with id p, if there is one, whose
\* images list becomes the old list with u appended; the response carries the
\* success message and u; the other collections are unchanged.
C6_AttachAppendsOnly ==
    [][\A q \in Procs :
          (Completes(q, "uploadImage") /\ out'.resp.status = 200) =>
              /\ out'.resp.msg = "Image uploaded successfully"
              /\ out'.resp.url = doc[q].url
              /\ DOMAIN properties' = DOMAIN properties
              /\ \A i \in DOMAIN properties :
                    IF properties[i].ID = Addressed(req[q])
                    THEN /\ properties'[i].Images =
                                properties[i].Images \o <<out'.resp.url>>
                         /\ properties'[i] =
                                [properties[i] EXCEPT !.Images = properties'[i].Images]
                    ELSE properties'[i] = properties[i]
              /\ <<listings, inquiries, users>>' = <<listings, inquiries, users>>]_vars

\* an image attach was answered 200 and its URL is the last of the images of
\* a Property that held an image before, beside a Property left untouched
C6_Witness ==
    /\ out.req.op = "uploadImage"
    /\ out.resp.status = 200
    /\ \E i \in DOMAIN properties :
        /\ properties[i].ID = Addressed(out.req)
        /\ Len(properties[i].Images) = 2
        /\ Last(properties[i].Images) = out.resp.url
        /\ properties[i].Images[1] # out.resp.url

\* an image attach for an id of no stored Property was answered 200
C6_WitnessAbsent ==
    /\ out.req.op = "uploadImage"
    /\ out.resp.status = 200
    /\ properties # <<>>
    /\ \A i \in DOMAIN properties :
        properties[i].ID # Addressed(out.req) /\ properties[i].Images = <<>>

--------------------------------------------------------------------------
(* C7 *)

\* seq is a prefix of seq2
Prefix(seq, seq2) == Len(seq) <= Len(seq2) /\ SubSeq(seq2, 1, Len(seq)) = seq

\* C7: no step deletes a record or changes a stored record, but for an image
\* attach appending to the images of a Property: every collection only grows
\* at its end, and a stored Property changes in its images list alone, which
\* only grows at its end and only in an uploadImage step.
C7_AppendOnly ==
    [][/\ Prefix(listings, listings')
       /\ Prefix(inquiries, inquiries')
       /\ Prefix(users, users')
       /\ Len(properties) <= Len(properties')
       /\ \A i \in DOMAIN properties :
            /\ properties'[i] = [properties[i] EXCEPT !.Images = properties'[i].Images]
            /\ Prefix(properties[i].Images, properties'[i].Images)
            /\ properties'[i] # properties[i] =>
                    \E q \in Procs : Completes(q, "uploadImage")]_vars

\* the store holds a Property with an image attached and a second Property
C7_Witness ==
    /\ Len(properties) = 2
    /\ \E i \in DOMAIN properties : properties[i].Images # <<>>

--------------------------------------------------------------------------
(* C8 *)

\* C8: a checkUser request with a non-empty email e is answered exists: true
\* exactly when a stored User has email e, exists: false exactly when none
\* has, or 500 when the lookup fails; it leaves the store unchanged; two
\* checks of one email with no store write in between give the same result.
C8_CheckUser ==
    [][/\ \A r \in Requests("checkUser") :
            (Takes(r) /\ r.email # "") =>
                /\ Answers(r)
                /\ store' = store
                /\ \/ /\ out'.resp.status = 200
                      /\ out'.resp.exists = (\E i \in DOMAIN users : users[i].Email = r.email)
                   \/ /\ out'.resp.status = 500
                      /\ out'.resp.msg = "Error checking user existence"
       /\ \A i, j \in DOMAIN checks' :
            (checks'[i].email = checks'[j].email /\ checks'[i].at = checks'[j].at)
                => checks'[i].exists = checks'[j].exists]_vars

\* two checks of the email of a stored User, no write between them, both
\* answered exists: true, and a check of another email answered exists: false
C8_Witness ==
    /\ \E i, j \in DOMAIN checks :
        /\ i < j
        /\ checks[i].email = checks[j].email
        /\ checks[i].at = checks[j].at
        /\ checks[i].exists
        /\ checks[j].exists
    /\ out.req.op = "checkUser"
    /\ out.resp.status = 200
    /\ users # <<>>

--------------------------------------------------------------------------
(* C9 *)

\* the data fields of a record of collection c, as a creation body sent them
Sent(c, body) ==
    CASE c = "properties" -> <<body.Title>>
      [] c = "listings" -> <<body.property_id, body.description>>
      [] c = "inquiries" -> <<body.message>>
      [] c = "users" -> <<body.email>>

\* the data fields of a record of collection c, as a list response shows them
Shown(c, d) ==
    CASE c = "properties" -> <<d.Title>>
      [] c = "listings" -> <<d.PropertyID, d.Description>>
      [] c = "inquiries" -> <<d.Message>>
      [] c = "users" -> <<d.Email>>

\* the collection a list operation reads
Listed(o) ==
    CASE o = "getProperties" -> "properties"
      [] o = "getListings" -> "listings"
      [] o = "getInquires" -> "inquiries"
      [] o = "getUsers" -> "users"

\* C9: a list request answered 200 shows, for every record whose insert was
\* answered 200 before, one entry with the id returned, the data fields as
\* they were sent and the timestamp the server gave it.
C9_RoundTrip ==
    [][\A o \in {"getProperties", "getListings", "getInquires", "getUsers"} :
          (out'.req.op = o /\ out'.resp.status = 200) =>
              \A e \in created :
                  e.coll = Listed(o) =>
                      /\ Cardinality({i \in DOMAIN out'.resp.body :
                                         out'.resp.body[i].ID = e.id}) = 1
                      /\ \E i \in DOMAIN out'.resp.body :
                            /\ out'.resp.body[i].ID = e.id
                            /\ Shown(e.coll, out'.resp.body[i]) = Sent(e.coll, e.body)
                            /\ out'.resp.body[i].CreatedAt = e.ts
                            /\ e.ts \in 1..now]_vars

\* GET /properties was answered 200 and shows a Property whose insert was
\* answered 200, with an image attached since
C9_Witness ==
    /\ out.req.op = "getProperties"
    /\ out.resp.status = 200
    /\ Len(out.resp.body) >= 1
    /\ \E e \in created : e.coll = "properties" /\ out.resp.body[1].ID = e.id
    /\ out.resp.body[1].Images # <<>>

--------------------------------------------------------------------------
(* C10 *)

URLs == {"u1", "u2"}

\* how often u occurs in seq
Count(seq, u) == Cardinality({k \in DOMAIN seq : seq[k] = u})

\* C10: no image append is lost: the images of every stored Property hold
\* each URL exactly as often as an image attach for that Property with that
\* URL was answered 200, whatever ran beside it.
C10_NoLostAppend ==
    \A i \in DOMAIN properties : \A u \in URLs :
        Count(properties[i].Images, u) =
            CopiesIn(<<properties[i].ID, u, TRUE>>, acked)
            + CopiesIn(<<properties[i].ID, u, FALSE>>, acked)

\* two image attaches for one stored Property were in flight together and
\* both were answered 200, and the Property holds the URLs of both
C10_Witness ==
    \E i \in DOMAIN properties : \E u \in URLs :
        /\ BagIn(<<properties[i].ID, u, TRUE>>, acked)
        /\ Len(properties[i].Images) = 2

--------------------------------------------------------------------------
(* C11 *)

\* C11: referential integrity: in every reachable state, whatever requests
\* were served and however they interleaved, the property_id of every stored
\* Listing parses as an id, and a Property with that id is in the properties
\* collection.
C11_ReferentialIntegrity ==
    \A i \in DOMAIN listings :
        LET h == ObjectIDFromHex(listings[i].PropertyID)
        IN  /\ ~h.err
            /\ FindByID(properties, h.id) # {}

\* a Listing is stored whose property_id is the upper-case hex of the id of a
\* stored Property, so that the reference matches only once it is parsed
C11_Witness ==
    \E i \in DOMAIN listings : \E j \in DOMAIN properties :
        /\ listings[i].PropertyID = IdOwnUpper
        /\ properties[j].ID = ObjectIDFromHex(IdOwnUpper).id

====
